---- MODULE Spec2Model ----
(***************************************************************************)
(* The three capture scripts of src/verification: debug_landing,           *)
(* verify_cyclist and verify_game.  Each run is a sequential program over  *)
(* one Playwright browser session.  The state is the program position, the *)
(* exception in flight, the browser session, and a log of the browser      *)
(* operations issued so far.  The page under test and the faults of the    *)
(* browser are the inputs of a run and are fixed when the run starts.      *)
(* Durations are in seconds.                                               *)
(***************************************************************************)
EXTENDS Integers, Sequences, FiniteSets, TLC

VARIABLES script, faults, canvas, bannerPresent, vpConfig,
          pc, exc, caught, escaped,
          pwRunning, opened, browserAlive, closeCount,
          viewport, loaded, bannerHidden, waited, slept,
          clicks, files, printed, log

envVars == <<script, faults, canvas, bannerPresent, vpConfig>>
ctlVars == <<pc, exc, caught, escaped>>
sessVars == <<pwRunning, opened, browserAlive, closeCount>>
pageVars == <<viewport, loaded, bannerHidden, waited, slept, clicks>>
outVars == <<files, printed>>
vars == <<envVars, ctlVars, sessVars, pageVars, outVars, log>>

(* ---------------------------- bounds ---------------------------------- *)
\* at most this many operations of one run fail for reasons of the browser
MaxFaults == 2
\* the canvas appears at most this many seconds after navigation, or never
MaxCanvasDelay == 31
\* viewports tried around the configured one, for the click coordinate
MaxDelta == 2

(* ------------------------ program constants --------------------------- *)
ConfigWidth == 1280
ConfigHeight == 720
ButtonOffsetX == 215
ButtonOffsetY == 60
\* page.wait_for_selector("canvas", timeout=10000) in verify_game
GameSelectorTimeout == 10
\* page.wait_for_selector("canvas") in verify_cyclist passes no timeout:
\* Playwright's default of 30000 ms applies
DefaultSelectorTimeout == 30

Scripts == {"debug_landing", "verify_cyclist", "verify_game"}

\* operations that can fail for a reason outside the page's content
\* (unreachable server, crashed browser, unwritable output directory);
\* time.sleep and print cannot, wait_for_selector and evaluate fail by
\* what the page contains
FaultOps == {"launch", "new_page", "goto", "click", "wait_for_timeout",
             "screenshot", "error_screenshot"}

NoException == "none"

(* ------------------------- program text ------------------------------- *)
\* statements between the with and the try (or the whole of run())
Prologue(s) == <<"launch", "new_page">>

HasTry(s) == s # "verify_game"

BodySwapped(s) ==
  CASE s = "debug_landing" ->
         <<"goto", "wait_for_timeout", "screenshot", "print_ok">>
    [] s = "verify_cyclist" ->
         <<"goto", "click", "wait_for_selector", "evaluate",
           "wait_for_timeout", "screenshot", "print_ok">>
    [] s = "verify_game" ->
         <<"goto", "wait_for_selector", "sleep", "screenshot", "close">>

\* the try body of debug_landing and verify_cyclist; for verify_game, which
\* has no try, the rest of run()
Body(s) ==
  CASE s = "debug_landing" ->
         <<"goto", "wait_for_timeout", "screenshot", "print_ok">>
    [] s = "verify_cyclist" ->
         <<"goto", "wait_for_selector", "evaluate", "click",
           "wait_for_timeout", "screenshot", "print_ok">>
    [] s = "verify_game" ->
         <<"goto", "wait_for_selector", "sleep", "screenshot", "close">>

HandlerCloseFirst(s) ==
  CASE s = "debug_landing" -> <<"print_error">>
    [] s = "verify_cyclist" -> <<"print_error", "close", "error_screenshot">>
    [] s = "verify_game" -> <<>>

\* the except clause
Handler(s) ==
  CASE s = "debug_landing" -> <<"print_error">>
    [] s = "verify_cyclist" -> <<"print_error", "error_screenshot">>
    [] s = "verify_game" -> <<>>

\* the finally clause
Finally(s) == IF HasTry(s) THEN <<"close">> ELSE <<>>

Code(s, phase) ==
  CASE phase = "prologue" -> Prologue(s)
    [] phase = "body" -> Body(s)
    [] phase = "except" -> Handler(s)
    [] phase = "finally" -> Finally(s)
    [] OTHER -> <<>>

\* where control goes when a block ends without an exception
After(s, phase) ==
  CASE phase = "prologue" -> "body"
    [] phase = "body" -> IF HasTry(s) THEN "finally" ELSE "exit"
    [] phase = "except" -> "finally"
    [] phase = "finally" -> "exit"
    [] OTHER -> "exit"

RECURSIVE Enter(_, _)
Enter(s, phase) ==
  IF phase = "exit" THEN [phase |-> "exit", idx |-> 1]
  ELSE IF Len(Code(s, phase)) = 0 THEN Enter(s, After(s, phase))
  ELSE [phase |-> phase, idx |-> 1]

Completed(s, p) ==
  IF p.idx < Len(Code(s, p.phase))
  THEN [p EXCEPT !.idx = @ + 1]
  ELSE Enter(s, After(s, p.phase))

\* an exception is caught only when raised inside a try body
Catches(s, phase) == phase = "body" /\ HasTry(s)

\* where control goes when a statement of the block raises
OnRaise(s, phase) ==
  CASE phase = "prologue" -> Enter(s, "exit")
    [] phase = "body" -> IF HasTry(s) THEN Enter(s, "except")
                                     ELSE Enter(s, "exit")
    [] phase = "except" -> Enter(s, "finally")
    [] phase = "finally" -> Enter(s, "exit")
    [] OTHER -> Enter(s, "exit")

CurOp ==
  IF pc.phase \in {"exit", "done"} THEN pc.phase
  ELSE Code(script, pc.phase)[pc.idx]

(* --------------------------- helpers ---------------------------------- *)
SelectorTimeoutAllDefault(s) == DefaultSelectorTimeout

SelectorTimeout(s) ==
  IF s = "verify_game" THEN GameSelectorTimeout ELSE DefaultSelectorTimeout

SettleSec(s) == IF s = "debug_landing" THEN 2 ELSE 3

ScreenshotPath(s) ==
  CASE s = "debug_landing" -> "verification/landing_debug.png"
    [] s = "verify_cyclist" -> "verification/verification.png"
    [] s = "verify_game" -> "verification/menu.png"

ErrorPath == "verification/error.png"

OkMessage(s) ==
  IF s = "debug_landing" THEN "Landing page screenshot taken."
  ELSE "Screenshot saved to verification/verification.png"

\* browser.new_page(viewport=...) ; verify_game passes none and gets the
\* engine's default
ViewportOf(s, cfg) ==
  IF s = "verify_game"
  THEN [width |-> ConfigWidth, height |-> ConfigHeight]
  ELSE cfg

\* Python's true division by 2 of an int: a float, exact in halves
FloorDiv2(n) == [whole |-> n \div 2, half |-> 0]

TrueDiv2(n) == [whole |-> n \div 2, half |-> n % 2]

FloatMinusInt(f, k) == [whole |-> f.whole - k, half |-> f.half]

\* the coordinate verify_cyclist passes to page.mouse.click
ClickPoint(vp) ==
  LET width == vp.width
      height == vp.height
      cx == TrueDiv2(width)
      btn_y == height - ButtonOffsetY
  IN [x |-> FloatMinusInt(cx, ButtonOffsetX), y |-> btn_y]

CanvasPresent(t) == canvas.appears /\ canvas.at <= t

\* leaving "with sync_playwright()" stops the driver, which ends every
\* browser it launched
BrowserLeftRunning(alive) == alive

BrowserAfterStop(alive) == FALSE

\* the common end of a statement: log it, then continue or raise
Finish(op, ok) ==
  /\ log' = Append(log, [op |-> op, ok |-> ok])
  /\ IF ok
     THEN /\ pc' = Completed(script, pc)
          /\ UNCHANGED <<exc, caught>>
     ELSE /\ pc' = OnRaise(script, pc.phase)
          /\ IF Catches(script, pc.phase)
             THEN exc' = NoException /\ caught' = op
             ELSE exc' = op /\ UNCHANGED caught
  /\ UNCHANGED <<escaped, envVars>>

(* ----------------------------- Init ----------------------------------- *)
CanvasTimes ==
  {[appears |-> FALSE, at |-> 0]}
    \cup {[appears |-> TRUE, at |-> t] : t \in 0..MaxCanvasDelay}

FaultSets == {F \in SUBSET FaultOps : Cardinality(F) <= MaxFaults}

Viewports ==
  {[width |-> w, height |-> h] :
     w \in (ConfigWidth - MaxDelta)..(ConfigWidth + MaxDelta),
     h \in (ConfigHeight - MaxDelta)..(ConfigHeight + MaxDelta)}

InitRun ==
  /\ pc = [phase |-> "prologue", idx |-> 1]
  /\ exc = NoException
  /\ caught = NoException
  /\ escaped = FALSE
  /\ pwRunning = TRUE
  /\ opened = FALSE
  /\ browserAlive = FALSE
  /\ closeCount = 0
  /\ viewport = [width |-> 0, height |-> 0]
  /\ loaded = FALSE
  /\ bannerHidden = FALSE
  /\ waited = 0
  /\ slept = 0
  /\ clicks = <<>>
  /\ files = {}
  /\ printed = <<>>
  /\ log = <<>>

Init ==
  /\ script \in Scripts
  /\ faults \in FaultSets
  /\ canvas \in CanvasTimes
  /\ bannerPresent \in BOOLEAN
  /\ vpConfig = [width |-> ConfigWidth, height |-> ConfigHeight]
  /\ InitRun

\* the click coordinate as a function of the viewport: any viewport
InitClick ==
  /\ script \in Scripts
  /\ faults = {}
  /\ canvas \in CanvasTimes
  /\ bannerPresent \in BOOLEAN
  /\ vpConfig \in Viewports
  /\ InitRun

(* ---------------------------- actions --------------------------------- *)
Launch ==
  /\ CurOp = "launch"
  /\ LET ok == "launch" \notin faults
     IN /\ opened' = ok
        /\ browserAlive' = ok
        /\ Finish("launch", ok)
  /\ UNCHANGED <<pwRunning, closeCount, pageVars, outVars>>

NewPage ==
  /\ CurOp = "new_page"
  /\ LET ok == "new_page" \notin faults
     IN /\ viewport' = IF ok THEN ViewportOf(script, vpConfig) ELSE viewport
        /\ Finish("new_page", ok)
  /\ UNCHANGED <<sessVars, loaded, bannerHidden, waited, slept, clicks,
                 outVars>>

Goto ==
  /\ CurOp = "goto"
  /\ LET ok == "goto" \notin faults
     IN /\ loaded' = ok
        /\ Finish("goto", ok)
  /\ UNCHANGED <<sessVars, viewport, bannerHidden, waited, slept, clicks,
                 outVars>>

\* wait_for_selector blocks while the canvas is absent and time remains
WaitTick ==
  /\ CurOp = "wait_for_selector"
  /\ waited < SelectorTimeout(script)
  /\ ~CanvasPresent(waited)
  /\ waited' = waited + 1
  /\ UNCHANGED <<envVars, ctlVars, sessVars, viewport, loaded, bannerHidden,
                 slept, clicks, outVars, log>>

WaitForSelectorFound ==
  /\ CurOp = "wait_for_selector"
  /\ CanvasPresent(waited)
  /\ Finish("wait_for_selector", TRUE)
  /\ UNCHANGED <<sessVars, pageVars, outVars>>

WaitForSelectorTimeout ==
  /\ CurOp = "wait_for_selector"
  /\ waited = SelectorTimeout(script)
  /\ Finish("wait_for_selector", FALSE)
  /\ UNCHANGED <<sessVars, pageVars, outVars>>

\* document.getElementById('unsupported-banner').style.display = 'none':
\* getElementById gives null for a missing id, and null.style throws
Evaluate ==
  /\ CurOp = "evaluate"
  /\ bannerHidden' = bannerPresent
  /\ Finish("evaluate", bannerPresent)
  /\ UNCHANGED <<sessVars, viewport, loaded, waited, slept, clicks, outVars>>

Click ==
  /\ CurOp = "click"
  /\ LET pt == ClickPoint(viewport)
     IN /\ printed' = Append(printed, [kind |-> "info", text |-> "Clicking at"])
        /\ clicks' = Append(clicks, pt)
        /\ Finish("click", "click" \notin faults)
  /\ UNCHANGED <<sessVars, viewport, loaded, bannerHidden, waited, slept,
                 files>>

WaitForTimeout ==
  /\ CurOp = "wait_for_timeout"
  /\ LET ok == "wait_for_timeout" \notin faults
     IN /\ slept' = IF ok THEN slept + SettleSec(script) ELSE slept
        /\ Finish("wait_for_timeout", ok)
  /\ UNCHANGED <<sessVars, viewport, loaded, bannerHidden, waited, clicks,
                 outVars>>

Sleep ==
  /\ CurOp = "sleep"
  /\ slept' = slept + SettleSec(script)
  /\ Finish("sleep", TRUE)
  /\ UNCHANGED <<sessVars, viewport, loaded, bannerHidden, waited, clicks,
                 outVars>>

Screenshot ==
  /\ CurOp = "screenshot"
  /\ LET ok == "screenshot" \notin faults
     IN /\ files' = IF ok THEN files \cup {ScreenshotPath(script)} ELSE files
        /\ Finish("screenshot", ok)
  /\ UNCHANGED <<sessVars, pageVars, printed>>

PrintOk ==
  /\ CurOp = "print_ok"
  /\ printed' = Append(printed, [kind |-> "info", text |-> OkMessage(script)])
  /\ Finish("print_ok", TRUE)
  /\ UNCHANGED <<sessVars, pageVars, files>>

PrintError ==
  /\ CurOp = "print_error"
  /\ printed' = Append(printed, [kind |-> "error", text |-> caught])
  /\ Finish("print_error", TRUE)
  /\ UNCHANGED <<sessVars, pageVars, files>>

ErrorScreenshot ==
  /\ CurOp = "error_screenshot"
  /\ LET ok == "error_screenshot" \notin faults
     IN /\ files' = IF ok THEN files \cup {ErrorPath} ELSE files
        /\ Finish("error_screenshot", ok)
  /\ UNCHANGED <<sessVars, pageVars, printed>>

Close ==
  /\ CurOp = "close"
  /\ closeCount' = closeCount + 1
  /\ browserAlive' = FALSE
  /\ Finish("close", TRUE)
  /\ UNCHANGED <<pwRunning, opened, pageVars, outVars>>

\* the end of the with block, reached normally or by an exception
ExitWith ==
  /\ CurOp = "exit"
  /\ pwRunning' = FALSE
  /\ browserAlive' = BrowserAfterStop(browserAlive)
  /\ escaped' = (exc # NoException)
  /\ pc' = [phase |-> "done", idx |-> 1]
  /\ UNCHANGED <<envVars, exc, caught, opened, closeCount, pageVars, outVars,
                 log>>

Next ==
  \/ Launch
  \/ NewPage
  \/ Goto
  \/ WaitTick
  \/ WaitForSelectorFound
  \/ WaitForSelectorTimeout
  \/ Evaluate
  \/ Click
  \/ WaitForTimeout
  \/ Sleep
  \/ Screenshot
  \/ PrintOk
  \/ PrintError
  \/ ErrorScreenshot
  \/ Close
  \/ ExitWith

Spec == Init /\ [][Next]_vars

SpecClick == InitClick /\ [][Next]_vars

(* ------------------------- observations ------------------------------- *)
Issued(op) == \E i \in DOMAIN log : log[i].op = op

Succeeded(op) == \E i \in DOMAIN log : log[i].op = op /\ log[i].ok

Failed(op) == \E i \in DOMAIN log : log[i].op = op /\ ~log[i].ok

Finished == pc.phase = "done"

\* the steps of the action sequence performed on the page
ActionOps == {"goto", "wait_for_selector", "evaluate", "click",
              "wait_for_timeout", "sleep", "screenshot"}

\* every operation issued on the page object
PageOps == ActionOps \cup {"error_screenshot"}

ActionFailed == \E i \in DOMAIN log : log[i].op \in ActionOps /\ ~log[i].ok

(* ----------------------------- claims --------------------------------- *)

\* C1: in each script, once launch() has opened the browser session,
\* browser.close() is executed exactly once before the script ends, on
\* every exit path, success or failure of any page action.
C1_ClosedExactlyOnce == (Finished /\ opened) => closeCount = 1

\* C2: in every script an exception raised by a step of the action
\* sequence is caught, printed with its text, and does not escape the
\* script.
C2_AllErrorsCaught ==
  (Finished /\ ActionFailed) =>
     (~escaped /\ \E k \in DOMAIN printed :
                     printed[k].kind = "error" /\ Failed(printed[k].text))

\* C3: in verify_cyclist the coordinate passed to the mouse click is exactly
\* (W/2 - 215, H - 60) for the viewport W x H the page reports, and
\* (425, 660) for 1280 x 720.
C3_ClickCoordinate ==
  \A i \in DOMAIN clicks :
     /\ 2 * clicks[i].x.whole + clicks[i].x.half = viewport.width - 430
     /\ clicks[i].x.half \in {0, 1}
     /\ clicks[i].y = viewport.height - 60
     /\ (viewport.width = 1280 /\ viewport.height = 720) =>
           (clicks[i].x = [whole |-> 425, half |-> 0] /\ clicks[i].y = 660)

C3_Witness ==
  /\ script = "verify_cyclist"
  /\ Issued("click")
  /\ Len(clicks) = 1
  /\ viewport.width % 2 = 1

\* C4: in verify_cyclist, hiding 'unsupported-banner' when the page has no
\* such element raises nothing, and the run goes on to the click, the
\* 3-second wait and the normal screenshot.
C4_HideMissingBannerNoOp ==
  (script = "verify_cyclist" /\ ~bannerPresent /\ faults = {}
     /\ Finished /\ Issued("evaluate")) =>
       /\ Succeeded("evaluate")
       /\ Succeeded("click")
       /\ slept = 3
       /\ "verification/verification.png" \in files

\* C5: for each script, when navigation succeeds and (where waited for) the
\* canvas appears, the finished run has written the script's screenshot to
\* its expected path.
C5_ValidPageScreenshot ==
  (Finished /\ faults = {}
     /\ (script # "debug_landing" => Succeeded("wait_for_selector"))) =>
       /\ script = "debug_landing" =>
             "verification/landing_debug.png" \in files
       /\ script = "verify_game" => "verification/menu.png" \in files
       /\ script = "verify_cyclist" =>
             "verification/verification.png" \in files

C7_StrictOrder ==
  script = "verify_cyclist" =>
    LET order == <<"goto", "wait_for_selector", "evaluate", "click",
                   "wait_for_timeout", "screenshot">>
    IN /\ \A i \in DOMAIN log : \A k \in 1..6 :
            log[i].op = order[k] =>
               /\ i = k + 2
               /\ \A j \in 1..(i - 1) :
                     /\ log[j].ok
                     /\ j > 2 => log[j].op = order[j - 2]
       /\ Issued("click") => (loaded /\ CanvasPresent(waited) /\ bannerHidden)
       /\ Issued("screenshot") => (Len(clicks) = 1 /\ slept = 3)

C7_Witness ==
  /\ script = "verify_cyclist"
  /\ Succeeded("screenshot")
  /\ "verification/verification.png" \in files

\* C8: in verify_cyclist a failure of the error screenshot does not escape
\* the script; the browser is still closed and the process completes
\* normally.
C8_ErrorScreenshotBestEffort ==
  (script = "verify_cyclist" /\ Finished /\ Failed("error_screenshot")) =>
     (~escaped /\ closeCount = 1)

\* C9 as stated: in verify_game and verify_cyclist the canvas wait fails once
\* 10 seconds have elapsed, and no later action of the normal sequence runs.
C9_TenSecondTimeout ==
  Failed("wait_for_selector") =>
     /\ waited = 10
     /\ ~Issued("click") /\ ~Issued("wait_for_timeout")
     /\ ~Issued("sleep") /\ ~Issued("screenshot")

\* C9 amended: the canvas wait is bounded by 10 seconds in verify_game and
\* by the engine's default 30 seconds in verify_cyclist; it never waits
\* longer, it fails exactly when that time has elapsed without the canvas,
\* and after a failed wait no later action of the normal sequence runs.
C9_BoundedWait ==
  /\ script = "verify_game" => waited <= 10
  /\ script = "verify_cyclist" => waited <= 30
  /\ Failed("wait_for_selector") =>
       /\ script = "verify_game" => waited = 10
       /\ script = "verify_cyclist" => waited = 30
       /\ ~CanvasPresent(waited - 1)
       /\ ~Issued("click") /\ ~Issued("wait_for_timeout")
       /\ ~Issued("sleep") /\ ~Issued("screenshot")
  /\ (Finished /\ Issued("wait_for_selector") /\ ~canvas.appears) =>
       Failed("wait_for_selector")

C9_Witness ==
  /\ script = "verify_game"
  /\ Finished
  /\ Failed("wait_for_selector")
  /\ ~canvas.appears

\* C10: no page operation is issued after browser.close(); in verify_cyclist
\* the error screenshot of the handler is attempted before the close of the
\* finally block on every failure path.
C10_NoPageOpAfterClose ==
  /\ \A i \in DOMAIN log : \A j \in DOMAIN log :
        (i < j /\ log[i].op = "close") => log[j].op \notin PageOps
  /\ (script = "verify_cyclist" /\ ActionFailed /\ Issued("close")) =>
        \E k \in DOMAIN log : \E c \in DOMAIN log :
           k < c /\ log[k].op = "error_screenshot" /\ log[c].op = "close"

C10_Witness ==
  /\ script = "verify_cyclist"
  /\ ActionFailed
  /\ Issued("error_screenshot")
  /\ Issued("close")
  /\ Finished

====
